---- MODULE Spec2Model ----
(***************************************************************************)
(* GAMER Streamlit front end (src/app.py): the turn executor               *)
(* (answer_generation), the render sequencer and feedback binder (main),   *)
(* the typewriter renderer (typewriter_stream) and the session store       *)
(* (st.session_state).                                                     *)
(***************************************************************************)
EXTENDS Integers, Sequences, FiniteSets, TLC

(***************************************************************************)
(* Bounds of the model.                                                    *)
(***************************************************************************)
\* longest content string enumerated for the typewriter renderer
MaxLen == 3
\* most events the pipeline emits in one turn
MaxEvents == 2
\* most turns of a session
MaxTurns == 2
\* most script runs of a session
MaxRuns == 3

(***************************************************************************)
(* Python values.  A string is a sequence of one-character strings.  Every *)
(* value is a record of the same shape: t is the Python type, s the        *)
(* characters of a str (or the digits of an int), items the elements of a  *)
(* list.                                                                   *)
(***************************************************************************)
Chars == {"a", " ", "1", "\"", "[", "]", "{", "}"}

PyStr(s) == [t |-> "str", s |-> s, items |-> <<>>]
PyInt(s) == [t |-> "int", s |-> s, items |-> <<>>]
PyList(xs) == [t |-> "list", s |-> <<>>, items |-> xs]
PyDict == [t |-> "dict", s |-> <<>>, items |-> <<>>]
PyNone == [t |-> "NoneType", s |-> <<>>, items |-> <<>>]

\* isinstance(v, str)
IsStr(v) == v.t = "str"

RECURSIVE LStrip(_)
LStrip(s) == IF s # <<>> /\ Head(s) = " " THEN LStrip(Tail(s)) ELSE s

RECURSIVE RStrip(_)
RStrip(s) ==
    IF s # <<>> /\ s[Len(s)] = " " THEN RStrip(SubSeq(s, 1, Len(s) - 1)) ELSE s

Strip(s) == RStrip(LStrip(s))

Inner(s) == SubSeq(s, 2, Len(s) - 1)

AllOf(s, c) == \A i \in 1..Len(s) : s[i] = c

NoneOf(s, c) == \A i \in 1..Len(s) : s[i] # c

(***************************************************************************)
(* json.loads on a str: the JSON documents that can be written with Chars  *)
(* (numbers of digits, strings, the empty object, arrays of at most one    *)
(* element, surrounded by optional whitespace).  The result is             *)
(* [ok |-> FALSE] for a JSONDecodeError.                                   *)
(***************************************************************************)
JsonFail == [ok |-> FALSE, val |-> PyNone]

JsonOk(v) == [ok |-> TRUE, val |-> v]

RECURSIVE JsonDecode(_)
JsonDecode(s) ==
    LET d == Strip(s)
        n == Len(d)
    IN  IF n = 0 THEN JsonFail
        ELSE IF AllOf(d, "1") THEN JsonOk(PyInt(d))
        ELSE IF n < 2 THEN JsonFail
        ELSE IF d[1] = "\"" /\ d[n] = "\"" /\ NoneOf(Inner(d), "\"")
             THEN JsonOk(PyStr(Inner(d)))
        ELSE IF d[1] = "{" /\ d[n] = "}" /\ AllOf(Inner(d), " ")
             THEN JsonOk(PyDict)
        ELSE IF d[1] = "[" /\ d[n] = "]"
             THEN IF AllOf(Inner(d), " ") THEN JsonOk(PyList(<<>>))
                  ELSE LET e == JsonDecode(Inner(d))
                       IN  IF e.ok THEN JsonOk(PyList(<<e.val>>)) ELSE JsonFail
        ELSE JsonFail

\* json.loads(v): TypeError for anything that is not a str
json_loads(v) == IF IsStr(v) THEN JsonDecode(v.s) ELSE JsonFail

\* v[0]: the first character of a str, the first element of a list;
\* [ok |-> FALSE] for IndexError, KeyError, TypeError
FirstItem(v) ==
    IF v.t = "str" /\ v.s # <<>> THEN JsonOk(PyStr(<<v.s[1]>>))
    ELSE IF v.t = "list" /\ v.items # <<>> THEN JsonOk(v.items[1])
    ELSE JsonFail

\* str.split(): the maximal runs of non-whitespace characters
RECURSIVE TakeWord(_)
TakeWord(s) ==
    IF s = <<>> \/ Head(s) = " " THEN <<>> ELSE <<Head(s)>> \o TakeWord(Tail(s))

RECURSIVE split(_)
split(s) ==
    LET t == LStrip(s)
        w == TakeWord(t)
    IN  IF t = <<>> THEN <<>>
        ELSE <<w>> \o split(SubSeq(t, Len(w) + 1, Len(t)))

(***************************************************************************)
(* Stream events: result["type"], result["content"].                       *)
(***************************************************************************)
EventTypes == {"intermediate_text", "tool_output", "final_response", "error"}

Event(ty, c) == [dict |-> TRUE, type |-> ty, content |-> c]

\* a yielded item that is a bare str, not a dict (lines 90-93)
StrItem(c) == [dict |-> FALSE, type |-> "str", content |-> c]

\* None, for the locals generation and result
NoResult == [dict |-> FALSE, type |-> "NoneType", content |-> PyNone]

(***************************************************************************)
(* State.                                                                  *)
(*   st.session_state: thread_id, query, run_id, messages, generation,     *)
(*     feedback; 0 stands for an absent thread_id and for run_id None,     *)
(*     <<>> for the empty query, PyNone for generation None.               *)
(*   fb_widget: the streamlit_feedback component, its key and value.       *)
(*   script run of main(): pc, developer_mode, gen (the local generation), *)
(*     message_stream, result (the loop variable), traced_runs             *)
(*     (cb.traced_runs), and what the run has put on the page: regions     *)
(*     (one per st.empty() handed to typewriter_stream), errors (st.error),*)
(*     warnings (st.warning), toasts (st.toast), uncaught (the exception   *)
(*     that ended the run).                                                *)
(*   answer_generation: ex_state; pipe_out is what stream_response         *)
(*     produced last; emitted and yielded record both sequences.           *)
(*   tracing collaborator: fb_calls (create_feedback calls), next_id (ids  *)
(*     it and uuid4 mint).                                                 *)
(*   history: runs (script runs started), turns (turns started), clicks    *)
(*     (faces picked in the component), completed_run (the traced run of   *)
(*     the last turn that yielded a final_response, 0 for none).           *)
(*   typewriter_stream: tw_pc, tw_result, text_content, full_response,     *)
(*     words, container (the values written to the region).                *)
(***************************************************************************)
VARIABLES thread_id, query, run_id, messages, generation, feedback,
          fb_widget,
          pc, developer_mode, gen, message_stream, result, traced_runs,
          regions, errors, warnings, toasts, uncaught,
          ex_state, pipe_out, emitted, yielded, pipe_args,
          fb_calls, next_id,
          runs, turns, clicks, completed_run,
          tw_pc, tw_result, text_content, full_response, words, container

store_vars == <<thread_id, query, run_id, messages, generation, feedback>>

run_vars == <<pc, developer_mode, gen, message_stream, result, traced_runs>>

page_vars == <<regions, errors, warnings, toasts, uncaught>>

exec_vars == <<ex_state, pipe_out, emitted, yielded, pipe_args>>

tracer_vars == <<fb_calls, next_id>>

hist_vars == <<runs, turns, clicks, completed_run>>

tw_vars == <<tw_pc, tw_result, text_content, full_response, words, container>>

sess_vars ==
    <<store_vars, fb_widget, run_vars, page_vars, exec_vars, tracer_vars,
      hist_vars>>

vars == <<sess_vars, tw_vars>>

(***************************************************************************)
(* typewriter_stream(result, container), one step per statement group.     *)
(***************************************************************************)
\* the parse attempts with a handler around the second one that keeps the
\* content as it is
Resolve_KeepText(res) ==
    IF res.type = "tool_output"
    THEN LET a == json_loads(res.content)
             f == FirstItem(res.content)
             b == IF f.ok THEN json_loads(f.val) ELSE JsonFail
         IN  IF a.ok THEN a ELSE IF b.ok THEN b ELSE JsonOk(res.content)
    ELSE JsonOk(res.content)

\* the parse attempts with a parsed one-element array replaced by its element
Resolve_Unwrap(res) ==
    IF res.type = "tool_output"
    THEN LET a == json_loads(res.content)
         IN  IF a.ok
             THEN IF a.val.t = "list" /\ Len(a.val.items) = 1
                  THEN JsonOk(a.val.items[1])
                  ELSE a
             ELSE LET f == FirstItem(res.content)
                  IN  IF f.ok THEN json_loads(f.val) ELSE JsonFail
    ELSE JsonOk(res.content)

\* lines 122-126: the content after the two parse attempts of a tool_output
Resolve(res) ==
    IF res.type = "tool_output"
    THEN LET a == json_loads(res.content)
         IN  IF a.ok THEN a
             ELSE LET f == FirstItem(res.content)
                  IN  IF f.ok THEN json_loads(f.val) ELSE JsonFail
    ELSE JsonOk(res.content)

\* the buffer as it is, without the space line 132 adds
Shown_NoPad(full) == PyStr(full)

\* what one pass of the word loop writes (line 132)
Shown(full) == PyStr(full \o <<" ">>)

\* lines 119-129
tw_resolve ==
    /\ tw_pc = "start"
    /\ LET r == Resolve(tw_result)
       IN  IF ~r.ok
           THEN /\ tw_pc' = "raised"
                /\ UNCHANGED <<text_content, words>>
           ELSE /\ text_content' = r.val
                /\ words' = IF IsStr(r.val) THEN split(r.val.s) ELSE <<>>
                /\ tw_pc' = "loop"
    /\ UNCHANGED <<tw_result, full_response, container, sess_vars>>

\* lines 130-133
tw_word ==
    /\ tw_pc = "loop"
    /\ words # <<>>
    /\ full_response' = full_response \o Head(words) \o <<" ">>
    /\ container' = Append(container, Shown(full_response'))
    /\ words' = Tail(words)
    /\ UNCHANGED <<tw_pc, tw_result, text_content, sess_vars>>

\* line 134
tw_final ==
    /\ tw_pc = "loop"
    /\ words = <<>>
    /\ container' = Append(container, text_content)
    /\ tw_pc' = "done"
    /\ UNCHANGED <<tw_result, text_content, full_response, words, sess_vars>>

typewriter_stream == tw_resolve \/ tw_word \/ tw_final

\* the renderer's state at a call of typewriter_stream(result, st.empty())
TwCall(res) ==
    /\ tw_pc' = "start"
    /\ tw_result' = res
    /\ text_content' = res.content
    /\ full_response' = <<>>
    /\ words' = <<>>
    /\ container' = <<>>

(***************************************************************************)
(* The session before its first script run.                                *)
(***************************************************************************)
NoFeedback == [feedback_id |-> 0, score |-> 0, set |-> FALSE]

NoWidget == [key |-> 0, val |-> "none", shown |-> FALSE]

NoOut == [kind |-> "none", ev |-> NoResult, e |-> <<>>]

NoArgs == [thread_id |-> 0, prev_generation |-> PyNone, chat_history |-> <<>>]

SessInit ==
    /\ thread_id = 0 /\ query = <<>> /\ run_id = 0 /\ messages = <<>>
    /\ generation = PyNone /\ feedback = NoFeedback
    /\ fb_widget = NoWidget
    /\ pc = "idle" /\ developer_mode = FALSE /\ gen = NoResult
    /\ message_stream = <<>> /\ result = NoResult /\ traced_runs = <<>>
    /\ regions = <<>> /\ errors = 0 /\ warnings = 0 /\ toasts = 0
    /\ uncaught = "none"
    /\ ex_state = "idle" /\ pipe_out = NoOut /\ emitted = <<>>
    /\ yielded = <<>> /\ pipe_args = NoArgs
    /\ fb_calls = <<>> /\ next_id = 1
    /\ runs = 0 /\ turns = 0 /\ clicks = 0 /\ completed_run = 0

(***************************************************************************)
(* SpecTW: typewriter_stream alone, on every event whose content is a str  *)
(* of at most MaxLen characters, a list holding one short str, an empty    *)
(* list, or one of the longer samples.                                     *)
(***************************************************************************)
Strings(n) == UNION {[1..k -> Chars] : k \in 0..n}

SampleTexts ==
    { <<"G", " ", "r", " ", "m">>,
      <<"a", "1", " ", " ", "a", " ", "1">>,
      <<"[", "{", "}", "]">>,
      <<"[", "\"", "a", " ", "a", "\"", "]">>,
      <<"\"", "a", " ", "1", " ", "a", "\"">>,
      <<" ", "{", " ", "}", " ">> }

TwContents ==
    {PyStr(s) : s \in Strings(MaxLen) \cup SampleTexts}
        \cup {PyList(<<PyStr(s)>>) : s \in Strings(2)}
        \cup {PyList(<<>>), PyList(<<PyList(<<>>)>>)}

TwInputs == {Event(ty, c) : ty \in EventTypes, c \in TwContents}

InitTW ==
    /\ SessInit
    /\ tw_result \in TwInputs
    /\ tw_pc = "start"
    /\ text_content = tw_result.content
    /\ full_response = <<>> /\ words = <<>> /\ container = <<>>

NextTW == tw_resolve \/ tw_word \/ tw_final

SpecTW == InitTW /\ [][NextTW]_vars

(***************************************************************************)
(* Spec: a browser session.  The user submits queries, clicks example      *)
(* buttons, toggles developer mode and clicks a feedback face; each of     *)
(* these reruns main().                                                    *)
(***************************************************************************)
\* what the user can type into st.chat_input; <<>> is "nothing submitted"
Queries == {<<"q">>}

\* contents the pipeline puts into its events
Text == PyStr(<<"a", " ", "a">>)

Answer == PyStr(<<"a">>)

BadJson == PyStr(<<"{">>)

PipelineEvents ==
    { Event("intermediate_text", Text),
      Event("tool_output", BadJson),
      Event("final_response", Answer),
      Event("error", Text) }

\* str(e) of the exceptions stream_response raises
Faults == {<<"x">>}

\* lines 90-93: the f-string built around the exception
ErrorSummary(e) ==
    PyStr(<<"E", "r", "r", "o", "r", ":", " ">> \o e \o <<".", " ", "T", "r", "y">>)

\* the user's text wrapped in the class of the assistant's Messages
HumanMessage_AsAI(q) == [role |-> "assistant", content |-> PyStr(q)]

\* line 331: HumanMessage(content=query)
HumanMessage(q) == [role |-> "user", content |-> PyStr(q)]

AIMessage(c) == [role |-> "assistant", content |-> c]

\* lines 101-114 without the test of line 103: a thread id for every run
initialize_session_state_remint ==
    /\ thread_id' = next_id
    /\ next_id' = next_id + 1

\* lines 101-114
initialize_session_state ==
    /\ thread_id' = IF thread_id = 0 THEN next_id ELSE thread_id
    /\ next_id' = IF thread_id = 0 THEN next_id + 1 ELSE next_id

\* lines 96-98: an example button's on_click callback
set_query(q) ==
    /\ pc = "idle"
    /\ query' = q
    /\ UNCHANGED <<thread_id, run_id, messages, generation, feedback,
                   fb_widget, run_vars, page_vars, exec_vars, tracer_vars,
                   hist_vars, tw_vars>>

\* lines 424-428: the user picks a face of the feedback component on the
\* page; the component keeps the value under its key and hands it to every
\* script run that renders it again
click_feedback(sym) ==
    /\ pc = "idle"
    /\ fb_widget.shown
    /\ fb_widget.val = "none"
    /\ fb_widget' = [fb_widget EXCEPT !.val = sym]
    /\ clicks' = clicks + 1
    /\ UNCHANGED <<store_vars, run_vars, page_vars, exec_vars, tracer_vars,
                   runs, turns, completed_run, tw_vars>>

\* lines 141-348: a script run from its start to the first request for an
\* event, or to the feedback section when no query is pending
main_begin(user_query, dev) ==
    /\ pc = "idle"
    /\ runs < MaxRuns
    /\ runs' = runs + 1
    /\ initialize_session_state
    /\ developer_mode' = dev
    /\ regions' = <<>> /\ errors' = 0 /\ warnings' = 0 /\ toasts' = 0
    /\ uncaught' = "none"
    /\ gen' = NoResult /\ message_stream' = <<>> /\ result' = NoResult
    /\ traced_runs' = <<>>
    /\ pipe_out' = NoOut /\ emitted' = <<>> /\ yielded' = <<>>
    /\ LET q == IF user_query # <<>> THEN user_query ELSE query
       IN  /\ query' = q
           /\ IF q # <<>>
              THEN /\ turns < MaxTurns
                   /\ turns' = turns + 1
                   /\ messages' = Append(messages, HumanMessage(q))
                   /\ pipe_args' = [thread_id |-> thread_id',
                                    prev_generation |-> generation,
                                    chat_history |-> messages']
                   /\ ex_state' = "running"
                   /\ pc' = "await"
              ELSE /\ UNCHANGED <<turns, messages, pipe_args>>
                   /\ ex_state' = "idle"
                   /\ pc' = "feedback"
    /\ fb_widget' = [fb_widget EXCEPT !.shown = FALSE]
    /\ UNCHANGED <<run_id, generation, feedback, fb_calls, clicks,
                   completed_run, tw_vars>>

\* stream_response (metadata_chatbot.GAMER.workflow), the external pipeline:
\* asked for its next event it yields one, raises, or ends.  Its first step
\* may leave a traced run in the run collector of collect_runs().
stream_response ==
    /\ pc = "await"
    /\ ex_state = "running"
    /\ \E traced \in BOOLEAN :
          IF emitted = <<>> /\ traced_runs = <<>> /\ traced
          THEN /\ traced_runs' = <<next_id>>
               /\ next_id' = next_id + 1
          ELSE UNCHANGED <<traced_runs, next_id>>
    /\ \/ \E ev \in PipelineEvents :
             /\ Len(emitted) < MaxEvents
             /\ emitted' = Append(emitted, ev)
             /\ pipe_out' = [kind |-> "event", ev |-> ev, e |-> <<>>]
       \/ \E e \in Faults :
             /\ pipe_out' = [kind |-> "raise", ev |-> NoResult, e |-> e]
             /\ UNCHANGED emitted
       \/ /\ pipe_out' = [kind |-> "end", ev |-> NoResult, e |-> <<>>]
          /\ UNCHANGED emitted
    /\ pc' = "relay"
    /\ UNCHANGED <<store_vars, fb_widget, developer_mode, gen, message_stream,
                   result, page_vars, ex_state, yielded, pipe_args, fb_calls,
                   hist_vars, tw_vars>>

\* line 87 with an event equal to the one yielded last dropped
ag_yield_dedup ==
    /\ pc = "relay"
    /\ pipe_out.kind = "event"
    /\ IF yielded # <<>> /\ yielded[Len(yielded)] = pipe_out.ev
       THEN /\ pc' = "await"
            /\ UNCHANGED <<result, yielded>>
       ELSE /\ result' = pipe_out.ev
            /\ yielded' = Append(yielded, pipe_out.ev)
            /\ pc' = "handle"
    /\ UNCHANGED ex_state

\* line 87: yield result
ag_yield ==
    /\ pc = "relay"
    /\ pipe_out.kind = "event"
    /\ result' = pipe_out.ev
    /\ yielded' = Append(yielded, pipe_out.ev)
    /\ pc' = "handle"
    /\ UNCHANGED ex_state

\* lines 89-93: the fault becomes one more yielded item
ag_except ==
    /\ pc = "relay"
    /\ pipe_out.kind = "raise"
    /\ result' = StrItem(ErrorSummary(pipe_out.e))
    /\ yielded' = Append(yielded, result')
    /\ ex_state' = "faulted"
    /\ pc' = "handle"

\* the generator returns: the pipeline ended, or the consumer asks again
\* after the item of lines 90-93; the async for loop ends
ag_return ==
    /\ \/ pc = "relay" /\ pipe_out.kind = "end"
       \/ pc = "await" /\ ex_state = "faulted"
    /\ ex_state' = "returned"
    /\ pc' = "post"
    /\ UNCHANGED <<result, yielded>>

\* lines 75-93
answer_generation ==
    /\ (ag_yield \/ ag_except \/ ag_return)
    /\ UNCHANGED <<store_vars, fb_widget, developer_mode, gen, message_stream,
                   traced_runs, page_vars, pipe_out, emitted, pipe_args,
                   tracer_vars, hist_vars, tw_vars>>

\* a new region (st.empty()) handed to typewriter_stream with res
NewRegion(res) == Append(regions, [result |-> res, writes |-> <<>>])

\* the region of the call that has just returned, with what was written
Written == [regions EXCEPT ![Len(regions)].writes = container]

\* line 369, line 404: report the exception
st_error == errors' = errors + 1

\* lines 360-367, 390-398: the loop body up to the call of the renderer;
\* result["type"] of an item that is not a dict raises TypeError
body_begin ==
    /\ pc = "handle"
    /\ result.dict
    /\ IF result.type = "final_response"
       THEN /\ gen' = result
            /\ pc' = "await"
            /\ UNCHANGED <<regions, tw_vars>>
       ELSE /\ TwCall(result)
            /\ regions' = NewRegion(result)
            /\ pc' = "render"
            /\ UNCHANGED gen
    /\ UNCHANGED <<message_stream, errors>>

\* lines 367, 398: the renderer returned
body_end ==
    /\ pc = "render"
    /\ tw_pc = "done"
    /\ message_stream' = Append(message_stream, result)
    /\ regions' = Written
    /\ pc' = "await"
    /\ UNCHANGED <<gen, errors, tw_vars>>

\* an exception in the loop body: TypeError of result["type"], or whatever
\* typewriter_stream raised
BodyRaised ==
    \/ pc = "handle" /\ ~result.dict
    \/ pc = "render" /\ tw_pc = "raised"

\* developer mode with the try around the loop instead of inside it
developer_except_outside ==
    /\ developer_mode
    /\ BodyRaised
    /\ st_error
    /\ pc' = "post"
    /\ UNCHANGED <<gen, message_stream, regions, tw_vars>>

\* lines 369-377: developer mode reports the exception and asks for the
\* next event
developer_except ==
    /\ developer_mode
    /\ BodyRaised
    /\ st_error
    /\ pc' = "await"
    /\ UNCHANGED <<gen, message_stream, regions, tw_vars>>

\* guided mode with the try inside the loop instead of around it
guided_except_inside ==
    /\ ~developer_mode
    /\ BodyRaised
    /\ st_error
    /\ pc' = "await"
    /\ UNCHANGED <<gen, message_stream, regions, tw_vars>>

\* lines 404-410: guided mode reports the exception outside the loop
guided_except ==
    /\ ~developer_mode
    /\ BodyRaised
    /\ st_error
    /\ pc' = "post"
    /\ UNCHANGED <<gen, message_stream, regions, tw_vars>>

\* lines 351-410: the render sequencer
render_sequencer ==
    /\ (body_begin \/ body_end \/ developer_except \/ guided_except)
    /\ UNCHANGED <<store_vars, fb_widget, developer_mode, result, traced_runs,
                   warnings, toasts, uncaught, exec_vars, tracer_vars,
                   hist_vars>>

\* an exception nothing in main() catches ends the script run
Uncaught(ex) ==
    /\ uncaught' = ex
    /\ pc' = "done"

\* the turn whose loop is over yielded a final_response and left a traced run
TurnCompleted ==
    /\ traced_runs # <<>>
    /\ \E i \in 1..Len(yielded) :
          yielded[i].dict /\ yielded[i].type = "final_response"

\* lines 412-419 with a run id that is stored only while none is stored
post_turn_first_run ==
    /\ pc = "post"
    /\ IF traced_runs = <<>>
       THEN /\ Uncaught("IndexError")
            /\ UNCHANGED <<run_id, messages, generation, regions, tw_vars>>
       ELSE /\ run_id' = IF run_id = 0
                       THEN traced_runs[Len(traced_runs)]
                       ELSE run_id
            /\ IF gen = NoResult
               THEN /\ Uncaught("TypeError")
                    /\ UNCHANGED <<messages, generation, regions, tw_vars>>
               ELSE /\ messages' = Append(messages, AIMessage(gen.content))
                    /\ generation' = gen.content
                    /\ regions' = NewRegion(gen)
                    /\ TwCall(gen)
                    /\ pc' = "final"
                    /\ UNCHANGED uncaught
    /\ completed_run' = IF TurnCompleted
                        THEN traced_runs[Len(traced_runs)]
                        ELSE completed_run
    /\ UNCHANGED <<thread_id, query, feedback, fb_widget, developer_mode, gen,
                   message_stream, result, traced_runs, errors, warnings,
                   toasts, exec_vars, tracer_vars, runs, turns, clicks>>

\* lines 412-419 without the assignment of line 417
post_turn_stale_generation ==
    /\ pc = "post"
    /\ IF traced_runs = <<>>
       THEN /\ Uncaught("IndexError")
            /\ UNCHANGED <<run_id, messages, generation, regions, tw_vars>>
       ELSE /\ run_id' = traced_runs[Len(traced_runs)]
            /\ IF gen = NoResult
               THEN /\ Uncaught("TypeError")
                    /\ UNCHANGED <<messages, generation, regions, tw_vars>>
               ELSE /\ messages' = Append(messages, AIMessage(gen.content))
                    /\ generation' = generation
                    /\ regions' = NewRegion(gen)
                    /\ TwCall(gen)
                    /\ pc' = "final"
                    /\ UNCHANGED uncaught
    /\ completed_run' = IF TurnCompleted
                        THEN traced_runs[Len(traced_runs)]
                        ELSE completed_run
    /\ UNCHANGED <<thread_id, query, feedback, fb_widget, developer_mode, gen,
                   message_stream, result, traced_runs, errors, warnings,
                   toasts, exec_vars, tracer_vars, runs, turns, clicks>>

\* lines 412-419, up to the call of the renderer
post_turn ==
    /\ pc = "post"
    /\ IF traced_runs = <<>>
       THEN /\ Uncaught("IndexError")
            /\ UNCHANGED <<run_id, messages, generation, regions, tw_vars>>
       ELSE /\ run_id' = traced_runs[Len(traced_runs)]
            /\ IF gen = NoResult
               THEN /\ Uncaught("TypeError")
                    /\ UNCHANGED <<messages, generation, regions, tw_vars>>
               ELSE /\ messages' = Append(messages, AIMessage(gen.content))
                    /\ generation' = gen.content
                    /\ regions' = NewRegion(gen)
                    /\ TwCall(gen)
                    /\ pc' = "final"
                    /\ UNCHANGED uncaught
    /\ completed_run' = IF TurnCompleted
                        THEN traced_runs[Len(traced_runs)]
                        ELSE completed_run
    /\ UNCHANGED <<thread_id, query, feedback, fb_widget, developer_mode, gen,
                   message_stream, result, traced_runs, errors, warnings,
                   toasts, exec_vars, tracer_vars, runs, turns, clicks>>

\* line 419: the renderer returned
post_turn_end ==
    /\ pc = "final"
    /\ tw_pc = "done"
    /\ regions' = Written
    /\ pc' = "feedback"
    /\ UNCHANGED <<store_vars, fb_widget, developer_mode, gen, message_stream,
                   result, traced_runs, errors, warnings, toasts, uncaught,
                   exec_vars, tracer_vars, hist_vars, tw_vars>>

(***************************************************************************)
(* The feedback binder.  The faces are named for their code points:        *)
(* grinning U+1F600, smiling U+1F642, neutral U+1F610, frowning U+1F641,   *)
(* disappointed U+1F61E; question U+2753 is not a face of the component.   *)
(* Scores are in hundredths.                                               *)
(***************************************************************************)
Faces == {"grinning", "smiling", "neutral", "frowning", "disappointed"}

Symbols == Faces \cup {"question"}

\* line 431, line 437: scores.get(symbol); -1 is None
scores_get(sym) ==
    CASE sym = "grinning" -> 100
      [] sym = "smiling" -> 75
      [] sym = "neutral" -> 50
      [] sym = "frowning" -> 25
      [] sym = "disappointed" -> 0
      [] OTHER -> -1

\* "if score:" in place of line 439
ScoreTruthy(score) == score > 0

\* line 439: if score is not None
ScoreAccepted(score) == score # -1

\* lines 422-460
feedback_section ==
    /\ pc = "feedback"
    /\ IF run_id = 0
       THEN /\ query' = <<>>
            /\ pc' = "done"
            /\ UNCHANGED <<fb_widget, feedback, fb_calls, next_id, warnings,
                           toasts, uncaught>>
       ELSE LET val == IF fb_widget.key = run_id THEN fb_widget.val ELSE "none"
                score == scores_get(val)
            IN  /\ fb_widget' = [key |-> run_id, val |-> val, shown |-> TRUE]
                /\ IF val = "none"
                   THEN /\ query' = <<>>
                        /\ pc' = "done"
                        /\ UNCHANGED <<feedback, fb_calls, next_id, warnings,
                                       toasts, uncaught>>
                   ELSE IF ~ScoreAccepted(score)
                   THEN /\ warnings' = warnings + 1
                        /\ query' = <<>>
                        /\ pc' = "done"
                        /\ UNCHANGED <<feedback, fb_calls, next_id, toasts,
                                       uncaught>>
                   ELSE \E ok \in BOOLEAN :
                          /\ fb_calls' = Append(fb_calls,
                                 [run_id |-> run_id, key |-> val,
                                  score |-> score, ok |-> ok])
                          /\ IF ok
                             THEN /\ feedback' = [feedback_id |-> Len(fb_calls'),
                                                  score |-> score, set |-> TRUE]
                                  /\ UNCHANGED next_id
                                  /\ toasts' = toasts + 1
                                  /\ query' = <<>>
                                  /\ pc' = "done"
                                  /\ UNCHANGED <<warnings, uncaught>>
                             ELSE /\ Uncaught("LangSmithError")
                                  /\ UNCHANGED <<feedback, next_id, toasts,
                                                 query, warnings>>
    /\ UNCHANGED <<thread_id, run_id, messages, generation, developer_mode, gen,
                   message_stream, result, traced_runs, regions, errors,
                   exec_vars, hist_vars, tw_vars>>

\* main() has returned or raised: its locals and the generator are dropped,
\* and the next run draws the page anew
script_end ==
    /\ pc = "done"
    /\ pc' = "idle"
    /\ gen' = NoResult /\ message_stream' = <<>> /\ result' = NoResult
    /\ traced_runs' = <<>> /\ regions' = <<>>
    /\ ex_state' = "idle" /\ pipe_out' = NoOut /\ emitted' = <<>>
    /\ yielded' = <<>> /\ pipe_args' = NoArgs
    /\ tw_pc' = "idle" /\ tw_result' = NoResult /\ text_content' = PyNone
    /\ full_response' = <<>> /\ words' = <<>> /\ container' = <<>>
    /\ developer_mode' = FALSE
    /\ errors' = 0 /\ warnings' = 0 /\ toasts' = 0 /\ uncaught' = "none"
    /\ UNCHANGED <<store_vars, fb_widget, tracer_vars, hist_vars>>

Init ==
    /\ SessInit
    /\ tw_pc = "idle" /\ tw_result = NoResult /\ text_content = PyNone
    /\ full_response = <<>> /\ words = <<>> /\ container = <<>>

Next ==
    \/ \E q \in Queries : set_query(q)
    \/ \E sym \in Symbols : click_feedback(sym)
    \/ \E user_query \in Queries \cup {<<>>}, dev \in BOOLEAN :
          main_begin(user_query, dev)
    \/ stream_response
    \/ answer_generation
    \/ render_sequencer
    \/ typewriter_stream
    \/ post_turn
    \/ post_turn_end
    \/ feedback_section
    \/ script_end

Spec == Init /\ [][Next]_vars

(***************************************************************************)
(* Properties of a session (Spec).                                         *)
(***************************************************************************)
\* the script run is executing a turn
InTurn == pipe_args # NoArgs

\* the consumption loop of the turn is over
AfterLoop == InTurn /\ pc \in {"post", "final", "feedback", "done"}

\* the pipeline raised and answer_generation has handled it
Raised == pipe_out.kind = "raise" /\ pc # "relay"

IsFinal(ev) == ev.dict /\ ev.type = "final_response"

IsError(ev) == ~ev.dict \/ ev.type = "error"

\* the Messages appended since the pipeline was invoked
AppendedThisTurn ==
    SubSeq(messages, Len(pipe_args.chat_history) + 1, Len(messages))

\* the regions created by the consumption loop, and the events they show
LoopRegions == SelectSeq(regions, LAMBDA r : ~IsFinal(r.result))

RECURSIVE ResultsOf(_)
ResultsOf(rs) ==
    IF rs = <<>> THEN <<>> ELSE <<Head(rs).result>> \o ResultsOf(Tail(rs))

\* rendering ev raises: it is no dict, or typewriter_stream raises on it
RenderRaises(ev) == ~ev.dict \/ (~IsFinal(ev) /\ ~Resolve(ev).ok)

\* C1: when the pipeline raises, answer_generation yields the events already
\* produced and then exactly one more item, a well-formed event of type
\* error whose content summarizes the fault.
C1_FaultBecomesErrorEvent ==
    Raised =>
        /\ Len(yielded) = Len(emitted) + 1
        /\ SubSeq(yielded, 1, Len(emitted)) = emitted
        /\ yielded[Len(yielded)] = Event("error", ErrorSummary(pipe_out.e))

\* C2: a turn whose loop ended without a captured final_response (and with a
\* traced run collected) ends without an uncaught fault.
C2_MissingFinalIsContained ==
    (InTurn /\ pc = "done" /\ gen = NoResult /\ traced_runs # <<>>)
        => uncaught = "none"

\* C3: a turn appends at most one assistant Message, and none when the last
\* event yielded is an error or when no final_response was yielded.
C3_AssistantMessagePerTurn ==
    InTurn =>
        /\ Len(AppendedThisTurn) <= 1
        /\ (yielded # <<>> /\ IsError(yielded[Len(yielded)]))
               => AppendedThisTurn = <<>>
        /\ (\A i \in 1..Len(yielded) : ~IsFinal(yielded[i]))
               => AppendedThisTurn = <<>>

C5_DeveloperFailSoft ==
    (developer_mode /\ AfterLoop) =>
        /\ ex_state = "returned"
        /\ errors = Len(SelectSeq(yielded, RenderRaises))
        /\ ResultsOf(LoopRegions)
               = SelectSeq(yielded, LAMBDA ev : ev.dict /\ ~IsFinal(ev))
        /\ message_stream
               = SelectSeq(yielded, LAMBDA ev : ~IsFinal(ev) /\ ~RenderRaises(ev))

\* developer mode: the first event raised, the second one was rendered and
\* is in the transcript
C5_Witness ==
    /\ developer_mode /\ pc = "post" /\ errors = 1
    /\ yielded = <<Event("tool_output", BadJson),
                   Event("intermediate_text", Text)>>
    /\ message_stream = <<Event("intermediate_text", Text)>>
    /\ Len(regions) = 2
    /\ regions[2].writes # <<>>

\* C6: the tracing collaborator has received at most one Feedback Record
\* for each feedback action of the user.
C6_OneRecordPerFeedbackAction ==
    Len(SelectSeq(fb_calls, LAMBDA c : c.ok)) <= clicks

\* the five faces and their scores, in hundredths
FaceScore ==
    [grinning |-> 100, smiling |-> 75, neutral |-> 50, frowning |-> 25,
     disappointed |-> 0]

\* C9: a feedback section that finds a face in the component calls
\* create_feedback once, with the run id of the session and the score of
\* the table; one that finds any other symbol warns, calls nothing and
\* leaves the stored feedback as it was.
C9_ScoreTable ==
    [][(pc = "feedback" /\ run_id # 0 /\ fb_widget.key = run_id
            /\ fb_widget.val # "none") =>
          IF fb_widget.val \in Faces
          THEN /\ Len(fb_calls') = Len(fb_calls) + 1
               /\ SubSeq(fb_calls', 1, Len(fb_calls)) = fb_calls
               /\ fb_calls'[Len(fb_calls')].run_id = run_id
               /\ fb_calls'[Len(fb_calls')].key = fb_widget.val
               /\ fb_calls'[Len(fb_calls')].score = FaceScore[fb_widget.val]
               /\ warnings' = warnings
               /\ fb_calls'[Len(fb_calls')].ok =>
                      (feedback'.set /\ feedback'.score = FaceScore[fb_widget.val])
          ELSE /\ fb_calls' = fb_calls
               /\ feedback' = feedback
               /\ warnings' = warnings + 1
               /\ uncaught' = "none"]_vars

\* the lowest face was forwarded with score 0 and stored
C9_Witness ==
    /\ pc = "done"
    /\ fb_calls = <<[run_id |-> run_id, key |-> "disappointed", score |-> 0,
                     ok |-> TRUE]>>
    /\ feedback.set /\ feedback.score = 0

\* C10: the regions of the loop show the non-final events in the order
\* yielded; nothing renders a final_response or appends a Message while the
\* loop runs; and the assistant Message is appended only when
\* answer_generation has no event left to give.
C10_AppendAfterExhaustion ==
    InTurn =>
        /\ ResultsOf(LoopRegions)
               = SelectSeq(IF pc = "handle"
                           THEN SubSeq(yielded, 1, Len(yielded) - 1)
                           ELSE yielded,
                           LAMBDA ev : ev.dict /\ ~IsFinal(ev))
        /\ ~AfterLoop =>
               /\ \A i \in 1..Len(regions) : ~IsFinal(regions[i].result)
               /\ AppendedThisTurn = <<>>
        /\ AppendedThisTurn # <<>> => ex_state \in {"returned", "faulted"}

\* C11: when a turn ends with answer_generation exhausted and no
\* final_response captured, the run id of the session is not the id of a
\* run traced during that turn.
C11_NoRunIdForFailedEmpty ==
    (InTurn /\ pc = "done" /\ ex_state = "returned" /\ gen = NoResult)
        => \A i \in 1..Len(traced_runs) : run_id # traced_runs[i]

\* C12: every create_feedback call passes the traced run of the most recent
\* turn that yielded a final_response; none is made before such a turn.
C12_FeedbackOnLatestCompleted ==
    [][fb_calls' # fb_calls =>
          /\ completed_run # 0
          /\ Len(fb_calls') = Len(fb_calls) + 1
          /\ fb_calls'[Len(fb_calls')].run_id = completed_run]_vars

\* after two completed turns a face was forwarded for the second one
C12_Witness ==
    /\ pc = "done"
    /\ Len(SelectSeq(messages, LAMBDA m : m.role = "assistant")) = 2
    /\ Len(fb_calls) = 1
    /\ fb_calls[1].run_id = completed_run
    /\ completed_run = next_id - 1

\* C13: when answer_generation has returned, the sequence it yielded holds
\* exactly one terminal signal (a final_response event or an error event),
\* and that signal is its last event.
C13_OneTerminalSignal ==
    (InTurn /\ ex_state = "returned") =>
        /\ yielded # <<>>
        /\ \A i \in 1..Len(yielded) :
              (yielded[i].dict /\ yielded[i].type \in {"final_response", "error"})
                  <=> i = Len(yielded)

\* C15: no script run ends with the fault of a tracing call: neither the
\* IndexError of cb.traced_runs[-1] on a turn that collected no traced run,
\* nor the fault of a create_feedback call.
C15_TracingFailureContained ==
    pc = "done" =>
        /\ (InTurn /\ traced_runs = <<>>) => uncaught # "IndexError"
        /\ (fb_calls # <<>> /\ ~fb_calls[Len(fb_calls)].ok)
               => uncaught # "LangSmithError"

\* C16: the session has a thread id from its first script run on, the id
\* never changes once it is there, and every invocation of the pipeline is
\* given the id of the session as config.thread_id.
C16_ThreadIdStable ==
    /\ [](/\ runs > 0 => thread_id # 0
          /\ InTurn => pipe_args.thread_id = thread_id)
    /\ [][thread_id # 0 => thread_id' = thread_id]_vars

\* the pipeline is invoked for the second turn of the session, in a later
\* script run than the first, with the id minted in the first run
C16_Witness ==
    /\ pc = "await" /\ emitted = <<>>
    /\ turns = 2 /\ runs = 3
    /\ thread_id = 1
    /\ pipe_args.thread_id = 1

\* the events answer_generation has passed on, without the item of its
\* except clause
Relayed == SelectSeq(yielded, LAMBDA ev : ev.dict)

\* C17: the events answer_generation yields are the events stream_response
\* emitted, in the same order, each one once; an event is yielded before the
\* next one is requested, so at most one event is held and none while the
\* pipeline is asked for the next.
C17_RelayInOrder ==
    InTurn =>
        IF pc = "relay" /\ pipe_out.kind = "event"
        THEN emitted = Append(Relayed, pipe_out.ev)
        ELSE emitted = Relayed

\* the pipeline emitted the same event twice and both were yielded
C17_Witness ==
    /\ pc = "handle"
    /\ emitted = <<Event("intermediate_text", Text),
                   Event("intermediate_text", Text)>>
    /\ yielded = emitted

\* C18: when a script run that ran a turn for the pending query is over,
\* however the turn ended, the query of the session is empty again, so the
\* next run does not start a turn for it a second time.
C18_QueryClearedAfterTurn ==
    (pc = "done" /\ InTurn) => query = <<>>

\* the content of the last assistant Message of a history, None without one
LastAssistant(history) ==
    LET a == SelectSeq(history, LAMBDA m : m.role = "assistant")
    IN  IF a = <<>> THEN PyNone ELSE a[Len(a)].content

C20_AppendOnlyWellPaired ==
    /\ [](/\ InTurn =>
               /\ pipe_args.chat_history # <<>>
               /\ pipe_args.chat_history[Len(pipe_args.chat_history)].role
                      = "user"
               /\ pc # "done" =>
                      pipe_args.chat_history[Len(pipe_args.chat_history)].content
                          = PyStr(query)
               /\ \/ messages = pipe_args.chat_history
                  \/ /\ Len(messages) = Len(pipe_args.chat_history) + 1
                     /\ SubSeq(messages, 1, Len(messages) - 1)
                            = pipe_args.chat_history
                     /\ messages[Len(messages)].role = "assistant"
          /\ \A i \in 1..Len(messages) :
                messages[i].role = "assistant" =>
                    i > 1 /\ messages[i - 1].role = "user")
    /\ [][/\ Len(messages') >= Len(messages)
          /\ SubSeq(messages', 1, Len(messages)) = messages]_vars

\* two completed turns: user, assistant, user, assistant
C20_Witness ==
    /\ pc = "done" /\ turns = 2
    /\ Len(messages) = 4
    /\ messages[3] = [role |-> "user", content |-> PyStr(<<"q">>)]
    /\ messages[4] = [role |-> "assistant", content |-> Answer]

(***************************************************************************)
(* Properties of typewriter_stream (SpecTW).                               *)
(***************************************************************************)
\* the renderer has gone past its parse attempts
TwResolved == tw_pc \in {"loop", "done", "raised"}

FirstParse == json_loads(tw_result.content)

SecondParse ==
    LET f == FirstItem(tw_result.content)
    IN  IF f.ok THEN json_loads(f.val) ELSE JsonFail

\* w1 .. wi, each followed by one space
RECURSIVE Spaced(_, _)
Spaced(ws, i) == IF i = 0 THEN <<>> ELSE Spaced(ws, i - 1) \o ws[i] \o <<" ">>

ResolvedWords == IF IsStr(text_content) THEN split(text_content.s) ELSE <<>>

\* C7 as stated: a tool_output whose content fails both parse attempts is
\* rendered as the opaque text it is, and no fault is raised.
C7_OpaqueTextFallback ==
    (tw_result.type = "tool_output" /\ TwResolved
        /\ ~FirstParse.ok /\ ~SecondParse.ok)
    => (tw_pc # "raised" /\ text_content = tw_result.content)

\* C7, amended: for a tool_output the content is resolved by an ordered chain
\* of two parse attempts: the parse of content if it succeeds, otherwise the
\* parse of content[0]; when both fail the renderer raises the fault of the
\* second attempt and writes nothing to the region.
C7_ParseChain ==
    (tw_result.type = "tool_output" /\ TwResolved)
    => IF FirstParse.ok
       THEN tw_pc # "raised" /\ text_content = FirstParse.val
       ELSE IF SecondParse.ok
       THEN tw_pc # "raised" /\ text_content = SecondParse.val
       ELSE tw_pc = "raised" /\ container = <<>>
                /\ text_content = tw_result.content

\* a tool_output rendered to the end through the second parse attempt
C7_Witness ==
    /\ tw_result.type = "tool_output"
    /\ ~FirstParse.ok /\ SecondParse.ok
    /\ tw_pc = "done"
    /\ container = <<SecondParse.val>>

\* the text of a JSON object: braces around optional whitespace
IsObjectText(s) ==
    LET e == Strip(s)
    IN  /\ Len(e) >= 2
        /\ e[1] = "{" /\ e[Len(e)] = "}"
        /\ AllOf(Inner(e), " ")

\* the text of a JSON array whose one element is an object
IsArrayOfObjectText(s) ==
    LET d == Strip(s)
    IN  /\ Len(d) >= 2
        /\ d[1] = "[" /\ d[Len(d)] = "]"
        /\ IsObjectText(Inner(d))

C8_OneSpacePerWord ==
    (tw_pc \in {"loop", "done"}) =>
        LET ws == ResolvedWords
            taken == Len(ws) - Len(words)
        IN  /\ \A i \in 1..taken : container[i] = PyStr(Spaced(ws, i))
            /\ tw_pc = "loop" => Len(container) = taken
            /\ tw_pc = "done" =>
                   /\ Len(container) = Len(ws) + 1
                   /\ container[Len(ws) + 1] = text_content

\* C8, amended: as stated, except that the i-th write is w1 .. wi, each word
\* followed by one space, followed by one more space.
C8_PaddedWrites ==
    (tw_pc \in {"loop", "done"}) =>
        LET ws == ResolvedWords
            taken == Len(ws) - Len(words)
        IN  /\ \A i \in 1..taken :
                   container[i] = PyStr(Spaced(ws, i) \o <<" ">>)
            /\ tw_pc = "loop" => Len(container) = taken
            /\ tw_pc = "done" =>
                   /\ Len(container) = Len(ws) + 1
                   /\ container[Len(ws) + 1] = text_content

\* the three-word sample text rendered to the end: four writes
C8_Witness ==
    /\ tw_pc = "done"
    /\ tw_result.content = PyStr(<<"G", " ", "r", " ", "m">>)
    /\ container =
           << PyStr(<<"G", " ", " ">>),
              PyStr(<<"G", " ", "r", " ", " ">>),
              PyStr(<<"G", " ", "r", " ", "m", " ", " ">>),
              PyStr(<<"G", " ", "r", " ", "m">>) >>

====
